---- MODULE Spec2Model ----
(***************************************************************************)
(* Insider_Trades: the scrape pipeline (Scraping/Scrape_Info.py), the      *)
(* backfill sweep (Scraping/update_missing_info.py) and the three price    *)
(* resolvers (get_price_at_filing, fetch_price_from_alpha_vantage and the  *)
(* legacy fetch_price of Scraping/update_price_bought.py).                 *)
(*                                                                         *)
(* Time is counted in ticks.  A bar key of the provider is a tick; it      *)
(* parses under '%Y-%m-%d %H:%M:00' only when it lies on a minute          *)
(* boundary, and under '%Y-%m-%d' only when it lies on a day boundary.     *)
(* Prices are positive integers; None, Raise and NoClose are sentinels.    *)
(***************************************************************************)
EXTENDS Integers, Sequences, FiniteSets, TLC

\* ------------------------------------------------------------------ bounds
MaxT == 4          \* ticks 0..MaxT are the bar keys and targets of a resolution
MaxBars == 2       \* longest time series a provider response carries

\* --------------------------------------------------------------- sentinels
None == -1         \* Python None / NaN: "NotFound", a null field
Raise == -2        \* an exception leaving the body of a try block
NoClose == -3      \* a bar that has no '4. close' entry

Minute == 2        \* ticks per minute: keys match '%H:%M:00' on multiples
Day == 4           \* ticks per day: keys match '%Y-%m-%d' on multiples

Ticks == 0..MaxT
Closes == {20, 21}

Abs(x) == IF x < 0 THEN 0 - x ELSE x

\* ------------------------------------------------------ provider responses
\* What one HTTP request to the price provider yields: requests.get raising
\* ("exc"), a body response.json() cannot decode ("badjson"), a JSON object
\* without the 'Time Series (..)' key ("noseries"), or one with it: "bars"
\* is the series in the order of the JSON object's keys (a dict: keys are
\* distinct).  "notcalled" marks a request the code did not issue.
Bar == [key : Ticks, close : Closes \cup {NoClose}]

DistinctKeys(s) == \A i, j \in 1..Len(s) : i # j => s[i].key # s[j].key

RECURSIVE SeriesOfLen(_)
SeriesOfLen(n) ==
    IF n = 0 THEN {<<>>}
    ELSE {Append(s, b) : s \in SeriesOfLen(n - 1), b \in Bar}

Series == {s \in UNION {SeriesOfLen(n) : n \in 0..MaxBars} : DistinctKeys(s)}

Failure(k) == [kind |-> k, bars |-> <<>>]
NotCalled == Failure("notcalled")

Responses ==
    {Failure("exc"), Failure("badjson"), Failure("noseries")}
        \cup {[kind |-> "series", bars |-> s] : s \in Series}

\* ------------------------------------------------------------ conversions
\* datetime.strptime(timestamp, '%Y-%m-%d %H:%M:00'): ValueError off the minute
ParsesMinute(k) == k % Minute = 0
\* datetime.strptime(timestamp, '%Y-%m-%d'): ValueError off the day
ParsesDay(k) == k % Day = 0
\* filing_datetime.strftime('%Y-%m-%d %H:%M:00'): the seconds are cut off
FilingStr(t) == (t \div Minute) * Minute
\* float(time_series[key]['4. close']): KeyError when the entry is missing
FloatClose(b) == IF b.close = NoClose THEN Raise ELSE b.close
\* Python truthiness of a resolver result (None and 0.0 are falsy)
Truthy(p) == p # None /\ p # 0

\* times.sort(key=abs(filing - dt)) then times[0], and min(times, key=...):
\* the first bar, in series order, among those closest to the target
Closest(times, t) ==
    LET d(i) == Abs(t - times[i].key)
        i == CHOOSE i \in 1..Len(times) :
                 /\ \A j \in 1..Len(times) : d(i) <= d(j)
                 /\ \A j \in 1..(i - 1) : d(i) < d(j)
    IN times[i]

\* except Exception: log and return None
NoCatch(v) == v
Catch(v) == IF v = Raise THEN None ELSE v

\* ---------------------------------------------- Scrape_Info.get_price_at_filing
\* bars whose key parses and is not later than the filing (lines 72-79, 104-111)
QualifyingBars(bars, filing_datetime) ==
    SelectSeq(bars, LAMBDA b : ParsesMinute(b.key) /\ b.key <= filing_datetime)

get_price_at_filing_try(ticker, filing_datetime, r1, r5) ==
    IF r1.kind \in {"exc", "badjson"} THEN Raise
    ELSE IF r1.kind = "series"
    THEN LET times == QualifyingBars(r1.bars, filing_datetime)
         IN  IF times # <<>>
             THEN FloatClose(Closest(times, filing_datetime))
             ELSE None
    ELSE IF r5.kind \in {"exc", "badjson"} THEN Raise
    ELSE IF r5.kind = "series"
    THEN LET times == QualifyingBars(r5.bars, filing_datetime)
         IN  IF times # <<>>
             THEN FloatClose(Closest(times, filing_datetime))
             ELSE None
    ELSE None

get_price_at_filing(ticker, filing_datetime, r1, r5) ==
    Catch(get_price_at_filing_try(ticker, filing_datetime, r1, r5))

\* the second request (5min) is issued only when the first has no series
NeedsSecond(r1) == r1.kind = "noseries"

\* ------------------------- update_missing_info.fetch_price_from_alpha_vantage
\* for timestamp in time_series: strptime (may raise); first dt <= filing wins
RECURSIVE FirstNotLater(_, _, _)
FirstNotLater(bars, i, filing_datetime) ==
    IF i > Len(bars) THEN None
    ELSE IF ~ParsesMinute(bars[i].key) THEN Raise
    ELSE IF bars[i].key <= filing_datetime THEN FloatClose(bars[i])
    ELSE FirstNotLater(bars, i + 1, filing_datetime)

fetch_price_from_alpha_vantage_try(ticker, filing_datetime, r5) ==
    IF r5.kind \in {"exc", "badjson"} THEN Raise
    ELSE IF r5.kind = "series"
    THEN LET filing_str == FilingStr(filing_datetime)
             exact == SelectSeq(r5.bars, LAMBDA b : b.key = filing_str)
         IN  IF exact # <<>> THEN FloatClose(exact[1])
             ELSE FirstNotLater(r5.bars, 1, filing_datetime)
    ELSE None

fetch_price_from_alpha_vantage(ticker, filing_datetime, r5) ==
    Catch(fetch_price_from_alpha_vantage_try(ticker, filing_datetime, r5))

\* ------------------------------------------- update_price_bought.fetch_price
fetch_price_try(ticker, filing_datetime, r1, rD) ==
    IF r1.kind \in {"exc", "badjson"} THEN Raise
    ELSE IF r1.kind = "series"
    THEN LET times == SelectSeq(r1.bars, LAMBDA b : ParsesMinute(b.key))
         IN  IF times # <<>>
             THEN FloatClose(Closest(times, filing_datetime))
             ELSE None
    ELSE IF rD.kind \in {"exc", "badjson"} THEN Raise
    ELSE IF rD.kind = "series"
    THEN LET times == SelectSeq(rD.bars, LAMBDA b : ParsesDay(b.key))
         IN  IF times # <<>>
             THEN FloatClose(Closest(times, filing_datetime))
             ELSE None
    ELSE None

fetch_price(ticker, filing_datetime, r1, rD) ==
    Catch(fetch_price_try(ticker, filing_datetime, r1, rD))

\* ============================================================== the store
\* ------------------------------------------------------------------ bounds
MaxRows == 2       \* rows of the source table one scrape run examines
MaxRuns == 2       \* scrape and sweep runs started in one behaviour
MaxNew == 2        \* records the scrape runs of one behaviour create

THRESHOLD == 500000    \* Scrape_Info.py line 164
Unparsable == -4       \* cell text that strptime / float reject

Tickers == {"AAA", "BBB", "NA"}
Insiders == {"X", "Y"}
\* who files for which company on the page
Filers == {<<"AAA", "X">>, <<"AAA", "Y">>, <<"BBB", "X">>, <<"NA", "X">>}
\* the wall clock during a behaviour, and the filing dates on the page: the
\* last one is later than any clock value
Clock == {1, 2}
FilingDates == {1, 2, 3}

\* A FilingRecord of insider_buys.csv.  tp is 'Transaction Price', pb is
\* 'Price Bought'; rid labels the record so that it can be followed through
\* sorts and rewrites (it is not a column of the file).
Rec(rid, date, ticker, insider, tp, pb, value) ==
    [rid |-> rid, date |-> date, ticker |-> ticker, insider |-> insider,
     tp |-> tp, pb |-> pb, value |-> value]

\* A file: absent, or a header and rows.
Absent == [exists |-> FALSE, rows |-> <<>>]
FileOf(rows) == [exists |-> TRUE, rows |-> rows]

\* pd.read_csv(csv_file) with its default na_values: a text cell holding one
\* of the NA tokens is read as NaN, which equals no cell text; to_csv writes
\* NaN as the empty cell, which is read as NaN again.  drop_duplicates takes
\* two NaN for equal.
NaTokens == {"NA"}
NaText == ""
ReadText(x) == IF x \in NaTokens THEN NaText ELSE x
ReadCsv(rows) ==
    [i \in 1..Len(rows) |->
        [rows[i] EXCEPT !.ticker = ReadText(@), !.insider = ReadText(@)]]

\* the stores a behaviour starts from: no file, a header-only file, and a
\* file (sorted, most recent first) whose records miss enrichment fields
SeedStore ==
    << Rec(1, 2, "AAA", "X", None, None, THRESHOLD),
       Rec(2, 1, "BBB", "Y", 10, None, THRESHOLD) >>

InitStores == {Absent, FileOf(<<>>), FileOf(SeedStore)}

\* df.to_csv(path): it succeeds, or open() fails and the file is as it was,
\* or the write fails part-way and the file holds a prefix of the rows
WriteOutcomes(file, rows) ==
    {[ok |-> TRUE, file |-> FileOf(rows)], [ok |-> FALSE, file |-> file]}
        \cup {[ok |-> FALSE, file |-> FileOf(SubSeq(rows, 1, n))] :
                 n \in 0..(Len(rows) - 1)}

\* ------------------------------------------------------- the filing page
\* One <tr> of the 'tinytable': cells is FALSE for a row without <td>.
SourceRow(cells, date, ticker, insider, price, value) ==
    [cells |-> cells, date |-> date, ticker |-> ticker, insider |-> insider,
     price |-> price, value |-> value]

NoRow == SourceRow(FALSE, Unparsable, "AAA", "X", None, Unparsable)

SourceRows ==
    {NoRow,
     SourceRow(TRUE, Unparsable, "AAA", "X", 10, THRESHOLD),
     SourceRow(TRUE, 1, "AAA", "X", Unparsable, THRESHOLD),
     SourceRow(TRUE, 1, "AAA", "X", 10, Unparsable),
     SourceRow(TRUE, 3, "AAA", "X", 10, Unparsable)} \cup
    {SourceRow(TRUE, d, f[1], f[2], p, v) :
        d \in FilingDates, f \in Filers, p \in {None, 10},
        v \in {THRESHOLD - 1, THRESHOLD}}

\* what the provider answers to the 1min request and (when that has no
\* usable data) what it has for the 5min request
OneBar(k, c) == [kind |-> "series", bars |-> <<[key |-> k, close |-> c]>>]
TwoBars(k1, c1, k2, c2) ==
    [kind |-> "series",
     bars |-> <<[key |-> k1, close |-> c1], [key |-> k2, close |-> c2]>>]

ProviderOutcomes ==
    { <<Failure("exc"), NotCalled>>,
      <<Failure("badjson"), NotCalled>>,
      <<Failure("noseries"), Failure("noseries")>>,
      <<Failure("noseries"), OneBar(0, 20)>>,
      <<TwoBars(4, 21, 0, 20), NotCalled>>,
      <<OneBar(0, NoClose), NotCalled>>,
      <<OneBar(1, 21), OneBar(0, 20)>>,
      <<OneBar(4, 21), OneBar(0, 20)>> }

\* what the provider answers to the sweep's single 5min request
SweepOutcomes ==
    { Failure("exc"), Failure("noseries"), OneBar(0, 20),
      TwoBars(4, 21, 0, 20), OneBar(1, 21) }

\* ----------------------------------------------------------------- state
VARIABLES
    csv_file,       \* insider_buys.csv
    backup_file,    \* insider_buys_backup.csv
    now,            \* datetime.now()
    pc,             \* "idle", "scrape_rows", "scrape_row_done", "sweep_rows",
                    \* "sweep_except"
    runs,           \* runs started so far
    next_id,        \* next record label
    existing_df,    \* scrape_insider_buys: the store as read at the start
    new_data,       \* scrape_insider_buys: records collected from the page
    rows_done,      \* scrape_insider_buys: rows of the page examined
    last_row,       \* scrape_insider_buys: the row the last step examined
    df,             \* update_missing_info: the table in memory
    index,          \* update_missing_info: position of the loop
    modified,       \* update_missing_info: the flag of that name
    backup_bound,   \* update_missing_info: local backup_file is assigned
    pre_sweep,      \* the store file as it was when the sweep started
    ret,            \* how the last run ended
    calls,          \* what the last step did: requests to the page and to
                    \* the price provider, rate-limit delays between them,
                    \* a page without the table, errors logged about the page
    rested,         \* the rate-limit delay has passed since the run's last
                    \* request to the price provider (or it has made none)
    query,          \* the last resolution: function, target, responses
    result          \* and what it returned

vars == <<csv_file, backup_file, now, pc, runs, next_id, existing_df, new_data,
          rows_done, last_row, df, index, modified, backup_bound, pre_sweep,
          ret, calls, rested, query, result>>

storeVars == <<csv_file, backup_file, now, pc, runs, next_id, existing_df,
               new_data, rows_done, last_row, df, index, modified,
               backup_bound, pre_sweep, ret, calls, rested>>

NoCalls == [page |-> 0, provider |-> 0, delays |-> 0, notable |-> FALSE,
            page_errors |-> 0]

NoQuery == [fn |-> "none", target |-> 0, first |-> NotCalled, second |-> NotCalled]

\* the 5min answer matters to the pipeline resolver's caller only when the
\* 1min answer has no usable data (no series, or no bar at or before target)
NoUsableData(r, t) ==
    \/ r.kind = "noseries"
    \/ r.kind = "series" /\ QualifyingBars(r.bars, t) = <<>>

\* for a 1min answer that is a series without usable data the 5min answer is
\* one the code never requests: either nothing, or a bar at the filing minute
CoarserAnswers(t) == {Failure("noseries"), OneBar(FilingStr(t), 20)}

InitStore ==
    /\ csv_file \in InitStores
    /\ backup_file = Absent
    /\ now = 1
    /\ pc = "idle"
    /\ runs = 0
    /\ next_id = 3
    /\ calls = NoCalls
    /\ rested = TRUE
    /\ existing_df = <<>>
    /\ new_data = <<>>
    /\ rows_done = 0
    /\ last_row = NoRow
    /\ df = <<>>
    /\ index = 1
    /\ modified = FALSE
    /\ backup_bound = FALSE
    /\ pre_sweep = Absent
    /\ ret = "none"

\* ----------------------------------------------- scrape_insider_buys
\* (existing_df['Ticker'] == ticker) & (existing_df['Filing Date'] == dt)).any()
InExisting(existing, ticker, filing_datetime) ==
    \E i \in 1..Len(existing) :
        existing[i].ticker = ticker /\ existing[i].date = filing_datetime

\* lines 152-162: what the try block does with a row before the value test:
\* "skip" (no cells, a parse error caught at line 188, a future date) or "ok"
EarlierThan(filing_datetime, clock) == ~(filing_datetime >= clock)
NotLater(filing_datetime, clock) == ~(filing_datetime > clock)
RowParses(row, clock) ==
    /\ row.cells
    /\ row.date # Unparsable
    /\ NotLater(row.date, clock)
    /\ row.price # Unparsable
    /\ row.value # Unparsable

\* line 164
AboveThreshold(value) == value > THRESHOLD
MeetsThreshold(value) == value >= THRESHOLD

\* lines 96-100: the 5min request follows the 1min request with no
\* time.sleep between them
DelaysBeforeSecond == 0
\* lines 171-186: time.sleep(12) is inside "if price_bought:"
SleepsAfter(price_bought) == Truthy(price_bought)

\* lines 164-166: the row goes to the price resolver
Eligible(row, clock, existing) ==
    /\ RowParses(row, clock)
    /\ MeetsThreshold(row.value)
    /\ (existing = <<>> \/ ~InExisting(existing, row.ticker, row.date))

\* drop_duplicates(subset=['Filing Date', 'Ticker', 'Insider Name'], keep='first')
SameKey(a, b) == a.date = b.date /\ a.ticker = b.ticker /\ a.insider = b.insider

RECURSIVE DropDuplicates(_)
DropDuplicates(s) ==
    IF s = <<>> THEN <<>>
    ELSE LET init == DropDuplicates(SubSeq(s, 1, Len(s) - 1))
             last == s[Len(s)]
         IN  IF \E i \in 1..(Len(s) - 1) : SameKey(s[i], last)
             THEN init
             ELSE Append(init, last)

\* sort_values('Filing Date', ascending=False): the default sort is not
\* stable, so records of equal date come out in any order
RECURSIVE Arrangements(_)
Arrangements(S) ==
    IF S = {} THEN {<<>>}
    ELSE UNION {{<<x>> \o t : t \in Arrangements(S \ {x})} : x \in S}

SortValues(s) ==
    {[i \in 1..Len(s) |-> s[a[i]]] :
        a \in {a \in Arrangements(1..Len(s)) :
                 \A i \in 1..(Len(s) - 1) : s[a[i]].date >= s[a[i + 1]].date}}

\* lines 193-208: what the store holds after the run, for the records read
\* at the start and those collected from the page.  Nothing collected: the
\* file is not written.  A non-empty store: concat, drop_duplicates,
\* sort_values.  An empty or absent one: new_df is written as collected.
MergeAlways(existing, incoming) ==
    SortValues(DropDuplicates(existing \o incoming))
Merge(existing, incoming) ==
    IF incoming = <<>> THEN {existing}
    ELSE IF existing # <<>>
    THEN SortValues(DropDuplicates(existing \o incoming))
    ELSE {incoming}

\* locals of a run that has ended
ScrapeLocalsCleared ==
    /\ existing_df' = <<>>
    /\ new_data' = <<>>
    /\ rows_done' = 0

\* lines 133-148: read the store, fetch the page, find the table.  A failed
\* request, or a page without the table (table is None, so table.find_all
\* raises), ends in the handler at line 215: return False.
ScrapeStart ==
    /\ pc = "idle"
    /\ runs < MaxRuns
    /\ runs' = runs + 1
    /\ last_row' = NoRow
    /\ query' = NoQuery
    /\ result' = None
    /\ rested' = TRUE
    /\ \E page \in {"table", "notable", "exc"} :
         /\ calls' = [NoCalls EXCEPT !.page = 1,
                                    !.notable = (page = "notable"),
                                    !.page_errors = IF page = "table"
                                                    THEN 0 ELSE 1]
         /\ IF page = "table"
            THEN /\ pc' = "scrape_rows"
                 /\ ret' = "none"
                 /\ existing_df' = IF csv_file.exists
                                   THEN ReadCsv(csv_file.rows) ELSE <<>>
                 /\ new_data' = <<>>
                 /\ rows_done' = 0
            ELSE /\ pc' = "idle"
                 /\ ret' = "False"
                 /\ ScrapeLocalsCleared
    /\ UNCHANGED <<csv_file, backup_file, now, next_id, df, index, modified,
                   backup_bound, pre_sweep>>

\* the body of the loop at lines 148-190, run on the next row of the page
ScrapeRow ==
    /\ pc = "scrape_rows"
    /\ rows_done < MaxRows
    /\ next_id < 3 + MaxNew
    /\ pc' = "scrape_row_done"
    /\ rows_done' = rows_done + 1
    /\ \E row \in SourceRows, clock \in {c \in Clock : c >= now} :
         /\ now' = clock
         /\ last_row' = row
         /\ IF Eligible(row, clock, existing_df)
            THEN \E o \in ProviderOutcomes :
                   LET price_bought ==
                         get_price_at_filing(row.ticker, row.date, o[1], o[2])
                   IN  /\ query' = [fn |-> "get_price_at_filing",
                                    target |-> row.date,
                                    first |-> o[1], second |-> o[2]]
                       /\ result' = price_bought
                       /\ calls' = [NoCalls EXCEPT
                                       !.provider = IF NeedsSecond(o[1])
                                                    THEN 2 ELSE 1,
                                       !.delays = IF NeedsSecond(o[1])
                                                  THEN DelaysBeforeSecond
                                                  ELSE 0]
                       /\ rested' = SleepsAfter(price_bought)
                       /\ IF Truthy(price_bought)
                          THEN /\ new_data' = Append(new_data,
                                     Rec(next_id, row.date, row.ticker,
                                         row.insider, row.price, price_bought,
                                         row.value))
                               /\ next_id' = next_id + 1
                          ELSE UNCHANGED <<new_data, next_id>>
            ELSE /\ query' = NoQuery
                 /\ result' = None
                 /\ calls' = NoCalls
                 /\ UNCHANGED <<new_data, next_id, rested>>
    /\ UNCHANGED <<csv_file, backup_file, runs, existing_df, df, index,
                   modified, backup_bound, pre_sweep, ret>>

\* the for statement at line 148 takes up the rest of the page
ScrapeContinue ==
    /\ pc = "scrape_row_done"
    /\ pc' = "scrape_rows"
    /\ last_row' = NoRow
    /\ query' = NoQuery
    /\ result' = None
    /\ calls' = NoCalls
    /\ UNCHANGED <<csv_file, backup_file, now, runs, next_id, existing_df,
                   new_data, rows_done, df, index, modified, backup_bound,
                   pre_sweep, ret, rested>>

\* lines 193-213: merge and write, or "No new entries found"
ScrapeFinish ==
    /\ pc = "scrape_rows"
    /\ pc' = "idle"
    /\ last_row' = NoRow
    /\ query' = NoQuery
    /\ result' = None
    /\ calls' = NoCalls
    /\ rested' = TRUE
    /\ ScrapeLocalsCleared
    /\ IF new_data # <<>>
       THEN /\ ret' = "True"
            /\ \E combined_df \in Merge(existing_df, new_data) :
                 csv_file' = FileOf(combined_df)
       ELSE /\ ret' = "False"
            /\ UNCHANGED csv_file
    /\ UNCHANGED <<backup_file, now, runs, next_id, df, index, modified,
                   backup_bound, pre_sweep>>

\* ------------------- update_missing_info.fetch_transaction_price_from_openinsider
\* the page: requests.get raising ("exc"), no tinytable ("notable"), or rows
PageOf(rows) == [kind |-> "table", rows |-> rows]
PageFailure(k) == [kind |-> k, rows |-> <<>>]

RECURSIVE FirstPricedMatch(_, _, _, _)
FirstPricedMatch(rows, i, ticker, filing_date_str) ==
    IF i > Len(rows) THEN None
    ELSE IF /\ rows[i].cells
            /\ ticker = rows[i].ticker
            /\ filing_date_str = rows[i].date
            /\ rows[i].price # None
    THEN (IF rows[i].price = Unparsable THEN Raise ELSE rows[i].price)
    ELSE FirstPricedMatch(rows, i + 1, ticker, filing_date_str)

fetch_transaction_price_from_openinsider_try(ticker, filing_date_str, page) ==
    IF page.kind = "exc" THEN Raise
    ELSE IF page.kind = "table"
    THEN FirstPricedMatch(page.rows, 1, ticker, filing_date_str)
    ELSE None

fetch_transaction_price_from_openinsider(ticker, filing_date_str, page) ==
    Catch(fetch_transaction_price_from_openinsider_try(
              ticker, filing_date_str, page))

\* line 109: logger.error in the handler, the lookup's only error message
LogsPageError(ticker, filing_date_str, page) ==
    fetch_transaction_price_from_openinsider_try(
        ticker, filing_date_str, page) = Raise

OtherTicker(t) == CHOOSE u \in Tickers : u # t

\* the pages a lookup for (ticker, date) may meet
PagesFor(ticker, date) ==
    { PageFailure("exc"), PageFailure("notable"), PageOf(<<>>),
      PageOf(<<SourceRow(TRUE, date, ticker, "X", 10, THRESHOLD)>>),
      PageOf(<<SourceRow(TRUE, date, ticker, "X", None, THRESHOLD),
               SourceRow(TRUE, date, OtherTicker(ticker), "X", 10, THRESHOLD)>>),
      PageOf(<<SourceRow(TRUE, date, ticker, "X", Unparsable, THRESHOLD)>>) }

\* ------------------------------------------------------ update_missing_info
SetTpResetPb(table, i, price) ==
    [table EXCEPT ![i] = [@ EXCEPT !.tp = price, !.pb = None]]
SetTp(table, i, price) == [table EXCEPT ![i].tp = price]
SetPb(table, i, price) == [table EXCEPT ![i].pb = price]

\* lines 129 and 140: pd.isna(row['Transaction Price']), pd.isna(row['Price Bought'])
NeedsTp(row) == row.tp = None
NeedsAnyPb(row) == TRUE
NeedsPb(row) == row.pb = None

\* locals of a run that has ended
SweepLocalsCleared ==
    /\ df' = <<>>
    /\ index' = 1
    /\ modified' = FALSE
    /\ backup_bound' = FALSE
    /\ pre_sweep' = Absent

\* lines 113-122: read the store, write the backup.  Without a store file
\* read_csv raises before backup_file is assigned.
SweepStart ==
    /\ pc = "idle"
    /\ runs < MaxRuns
    /\ runs' = runs + 1
    /\ pre_sweep' = csv_file
    /\ modified' = FALSE
    /\ index' = 1
    /\ ret' = "none"
    /\ query' = NoQuery
    /\ result' = None
    /\ calls' = NoCalls
    /\ rested' = TRUE
    /\ IF ~csv_file.exists
       THEN /\ pc' = "sweep_except"
            /\ backup_bound' = FALSE
            /\ df' = <<>>
            /\ UNCHANGED backup_file
       ELSE /\ df' = ReadCsv(csv_file.rows)
            /\ backup_bound' = TRUE
            /\ \E w \in WriteOutcomes(backup_file, ReadCsv(csv_file.rows)) :
                 /\ backup_file' = w.file
                 /\ pc' = IF w.ok THEN "sweep_rows" ELSE "sweep_except"
    /\ UNCHANGED <<csv_file, now, next_id, existing_df, new_data, rows_done,
                   last_row>>

\* whether the pass over a row saves the table (line 149): updates_made is
\* set by the transaction-price branch only
SavesAfter(tp_updated, pb_updated) == tp_updated

\* one pass of the loop at lines 125-152
SweepRow ==
    /\ pc = "sweep_rows"
    /\ index <= Len(df)
    /\ index' = index + 1
    /\ LET row == df[index] IN
       \E page \in (IF NeedsTp(row) THEN PagesFor(row.ticker, row.date)
                    ELSE {PageFailure("notcalled")}),
          o \in (IF NeedsPb(row) THEN SweepOutcomes ELSE {NotCalled}) :
         LET tprice == IF NeedsTp(row)
                       THEN fetch_transaction_price_from_openinsider(
                                row.ticker, row.date, page)
                       ELSE None
             tp_updated == NeedsTp(row) /\ tprice # None
             df1 == IF tp_updated THEN SetTp(df, index, tprice) ELSE df
             price == IF NeedsPb(row)
                      THEN fetch_price_from_alpha_vantage(row.ticker, row.date, o)
                      ELSE None
             pb_updated == NeedsPb(row) /\ Truthy(price)
             df2 == IF pb_updated THEN SetPb(df1, index, price) ELSE df1
         IN  /\ df' = df2
             /\ modified' = (modified \/ tp_updated)
             /\ calls' = [NoCalls EXCEPT
                             !.page = IF NeedsTp(row) THEN 1 ELSE 0,
                             !.provider = IF NeedsPb(row) THEN 1 ELSE 0,
                             !.notable = (page.kind = "notable"),
                             !.page_errors =
                                 IF NeedsTp(row) /\ LogsPageError(
                                        row.ticker, row.date, page)
                                 THEN 1 ELSE 0]
             /\ rested' = IF NeedsPb(row) THEN TRUE ELSE rested
             /\ result' = price
             /\ IF SavesAfter(tp_updated, pb_updated)
                THEN \E w \in WriteOutcomes(csv_file, df2) :
                       /\ csv_file' = w.file
                       /\ pc' = IF w.ok THEN "sweep_rows" ELSE "sweep_except"
                ELSE UNCHANGED <<csv_file, pc>>
    /\ UNCHANGED <<backup_file, now, runs, next_id, existing_df, new_data,
                   rows_done, last_row, backup_bound, pre_sweep, ret, query>>

\* lines 154-163: the final save, when modified
SweepFinish ==
    /\ pc = "sweep_rows"
    /\ index > Len(df)
    /\ result' = None
    /\ calls' = NoCalls
    /\ IF modified
       THEN \E w \in WriteOutcomes(csv_file, df) :
              /\ csv_file' = w.file
              /\ IF w.ok
                 THEN pc' = "idle" /\ ret' = "returned" /\ SweepLocalsCleared
                 ELSE /\ pc' = "sweep_except"
                      /\ UNCHANGED <<ret, df, index, modified, backup_bound,
                                     pre_sweep>>
       ELSE /\ pc' = "idle"
            /\ ret' = "returned"
            /\ SweepLocalsCleared
            /\ UNCHANGED csv_file
    /\ UNCHANGED <<backup_file, now, runs, next_id, existing_df, new_data,
                   rows_done, last_row, rested, query>>

\* lines 165-171: the handler.  With backup_file unassigned (the read at
\* line 115 failed) os.path.exists(backup_file) raises UnboundLocalError;
\* otherwise the backup, if there is one, is moved over the store and the
\* error is raised again.
SweepExcept ==
    /\ pc = "sweep_except"
    /\ pc' = "idle"
    /\ result' = None
    /\ calls' = NoCalls
    /\ IF ~backup_bound
       THEN /\ ret' = "raised_unbound"
            /\ UNCHANGED <<csv_file, backup_file>>
       ELSE /\ ret' = "raised"
            /\ IF backup_file.exists
               THEN csv_file' = backup_file /\ backup_file' = Absent
               ELSE UNCHANGED <<csv_file, backup_file>>
    /\ SweepLocalsCleared
    /\ UNCHANGED <<now, runs, next_id, existing_df, new_data, rows_done,
                   last_row, rested, query>>

Init ==
    /\ InitStore
    /\ query = NoQuery
    /\ result = None

Next ==
    \/ ScrapeStart
    \/ ScrapeRow
    \/ ScrapeContinue
    \/ ScrapeFinish
    \/ SweepStart
    \/ SweepRow
    \/ SweepFinish
    \/ SweepExcept

Spec == Init /\ [][Next]_vars

\* ------------------------------------------------ one resolution at a time
InitResolver ==
    /\ InitStore
    /\ csv_file = Absent
    /\ query = NoQuery
    /\ result = None

ResolvePipeline ==
    /\ query.fn = "none"
    /\ \E t \in Ticks, r1 \in Responses :
         \E r5 \in (IF NeedsSecond(r1) THEN Responses
                    ELSE IF NoUsableData(r1, t) THEN CoarserAnswers(t)
                    ELSE {NotCalled}) :
            /\ query' = [fn |-> "get_price_at_filing", target |-> t,
                         first |-> r1, second |-> r5]
            /\ result' = get_price_at_filing("AAA", t, r1, r5)
    /\ UNCHANGED storeVars

ResolveSweep ==
    /\ query.fn = "none"
    /\ \E t \in Ticks, r5 \in Responses :
            /\ query' = [fn |-> "fetch_price_from_alpha_vantage", target |-> t,
                         first |-> r5, second |-> NotCalled]
            /\ result' = fetch_price_from_alpha_vantage("AAA", t, r5)
    /\ UNCHANGED storeVars

ResolveLegacy ==
    /\ query.fn = "none"
    /\ \E t \in Ticks, r1 \in Responses :
         \E rD \in (IF NeedsSecond(r1) THEN Responses ELSE {NotCalled}) :
            /\ query' = [fn |-> "fetch_price", target |-> t,
                         first |-> r1, second |-> rD]
            /\ result' = fetch_price("AAA", t, r1, rD)
    /\ UNCHANGED storeVars

ResolverReturn ==
    /\ query.fn # "none"
    /\ query' = NoQuery
    /\ result' = None
    /\ UNCHANGED storeVars

NextResolver ==
    \/ ResolvePipeline
    \/ ResolveSweep
    \/ ResolveLegacy
    \/ ResolverReturn

SpecResolver == InitResolver /\ [][NextResolver]_vars

\* ------------------------------------------------------ one merge at a time
MaxBatch == 2      \* longest store and longest batch of collected records

\* records to merge: 1 and 2 share a uniqueness key and differ in their
\* enrichment, 3 is a later filing, 4 another insider's filing of date 1
MergeRecords ==
    { Rec(1, 1, "AAA", "X", None, 20, THRESHOLD),
      Rec(2, 1, "AAA", "X", 10, 20, THRESHOLD),
      Rec(3, 2, "AAA", "X", 10, 21, THRESHOLD),
      Rec(4, 1, "AAA", "Y", None, 21, THRESHOLD) }

\* a store, or the records one run collected, in any order
Batches ==
    UNION {{b \in [1..n -> MergeRecords] :
               \A i, j \in 1..n : i # j => b[i].rid # b[j].rid} :
           n \in 0..MaxBatch}

\* the stores after a run that collected A and then a run that collected B
LeftResults(S, A, B) == UNION {Merge(x, B) : x \in Merge(S, A)}
\* the stores after one run that collected what merging B into A gives
RightResults(S, A, B) == UNION {Merge(S, z) : z \in Merge(A, B)}

InitMerge ==
    /\ InitStore
    /\ csv_file = Absent
    /\ query \in [fn : {"none"}, S : Batches, A : Batches, B : Batches]
    /\ result = None

MergeEmpty ==
    /\ query.fn = "none"
    /\ query' = [query EXCEPT !.fn = "empty"]
    /\ result' \in Merge(query.S, <<>>)
    /\ UNCHANGED storeVars

MergeLeft ==
    /\ query.fn = "none"
    /\ query' = [query EXCEPT !.fn = "left"]
    /\ result' \in LeftResults(query.S, query.A, query.B)
    /\ UNCHANGED storeVars

MergeRight ==
    /\ query.fn = "none"
    /\ query' = [query EXCEPT !.fn = "right"]
    /\ result' \in RightResults(query.S, query.A, query.B)
    /\ UNCHANGED storeVars

MergeReturn ==
    /\ query.fn # "none"
    /\ query' = [query EXCEPT !.fn = "none"]
    /\ result' = None
    /\ UNCHANGED storeVars

NextMerge ==
    \/ MergeEmpty
    \/ MergeLeft
    \/ MergeRight
    \/ MergeReturn

SpecMerge == InitMerge /\ [][NextMerge]_vars

\* ================================================================== claims
\* the series a resolution read its price from: the first answer when it is
\* a series, else the second when the first had none
Consulted(q) ==
    IF q.first.kind = "series" THEN q.first.bars
    ELSE IF q.first.kind = "noseries" /\ q.second.kind = "series"
    THEN q.second.bars
    ELSE <<>>

\* a bar of the answer parses and is at or before the target
HasQualifyingBar(r, t) ==
    /\ r.kind = "series"
    /\ \E i \in 1..Len(r.bars) :
         r.bars[i].key % Minute = 0 /\ r.bars[i].key <= t

\* and every bar of it parses and has a close
Sound(r) ==
    \A i \in 1..Len(r.bars) :
        r.bars[i].key % Minute = 0 /\ r.bars[i].close # NoClose

\* a page row whose cells all parse
WellFormed(row) ==
    /\ row.cells
    /\ row.date # Unparsable
    /\ row.price # Unparsable
    /\ row.value # Unparsable

Matches(existing, row) ==
    \E i \in 1..Len(existing) :
        existing[i].ticker = row.ticker /\ existing[i].date = row.date

\* a step that runs the body of the scrape loop on a row
RowStep == pc = "scrape_rows" /\ pc' = "scrape_row_done"

\* the fields of every record of old that new still holds are kept: a value
\* stays the value it was
FieldsKept(old, new) ==
    \A i \in 1..Len(old), j \in 1..Len(new) :
        old[i].rid = new[j].rid =>
            /\ (old[i].tp # None => new[j].tp = old[i].tp)
            /\ (old[i].pb # None => new[j].pb = old[i].pb)

\* C1: a sweep that returns has written to the store file every price_bought
\* the resolver returned for a record whose price_bought was null and whose
\* transaction_price was set, and the file has as many rows as before.
C1_SweepPersistsPriceBought ==
    [][(pc = "sweep_rows" /\ pc' = "idle" /\ ret' = "returned") =>
         /\ Len(csv_file'.rows) = Len(pre_sweep.rows)
         /\ \A i \in 1..Len(df) :
              (/\ pre_sweep.rows[i].pb = None
               /\ pre_sweep.rows[i].tp # None
               /\ df[i].pb # None)
                  => csv_file'.rows[i].pb = df[i].pb]_vars

\* C2: when the sweep's error handler returns control to the caller, the
\* store file is the file the sweep started from.
C2_ErrorRestoresPreSweep ==
    [][(pc = "sweep_except" /\ pc' = "idle") => csv_file' = pre_sweep]_vars

\* C3 (as stated): no step of a scrape run or of a sweep run, the restore of
\* the backup included, turns a non-null transaction_price or price_bought of
\* a stored record into null or into another value.
C3_NeverUnset ==
    [][FieldsKept(csv_file.rows, csv_file'.rows)]_vars

\* C3 (amended): every step other than the sweep's error handler leaves a
\* non-null transaction_price or price_bought of a stored record as it is;
\* only the handler's restore of the backup can undo a fill.
C3_OnlyRestoreUnsets ==
    [][pc # "sweep_except" => FieldsKept(csv_file.rows, csv_file'.rows)]_vars

\* C3 witness: a scrape run has merged new records into a store in which an
\* earlier sweep had filled the transaction_price of the first seed record.
C3_Witness ==
    /\ pc = "idle"
    /\ ret = "True"
    /\ Len(csv_file.rows) > 2
    /\ \E i \in 1..Len(csv_file.rows) :
         csv_file.rows[i].rid = 1 /\ csv_file.rows[i].tp # None

\* C4: when the sweep starts on record k, the store file holds every
\* transaction_price and price_bought the sweep filled for records before k.
C4_ProgressPersisted ==
    pc = "sweep_rows" =>
        \A i \in 1..(index - 1) :
            (i <= Len(df) /\ i <= Len(csv_file.rows)) =>
                /\ (pre_sweep.rows[i].tp = None /\ df[i].tp # None
                       => csv_file.rows[i].tp = df[i].tp)
                /\ (pre_sweep.rows[i].pb = None /\ df[i].pb # None
                       => csv_file.rows[i].pb = df[i].pb)

\* C5: the scrape loop collects a row only when its value is at least
\* 500000: a row below it is not collected and costs no provider call, a
\* well-formed, past-dated, unmatched row of exactly 500000 goes to the
\* resolver and is collected when a price comes back, and every record a
\* scrape run writes to the store has value >= 500000.
C5_ValueFilter ==
    [][/\ RowStep =>
            /\ (last_row'.value < THRESHOLD =>
                    new_data' = new_data /\ calls'.provider = 0)
            /\ (new_data' # new_data =>
                    /\ Len(new_data') = Len(new_data) + 1
                    /\ new_data'[Len(new_data')].value = last_row'.value
                    /\ last_row'.value >= THRESHOLD)
            /\ ((/\ WellFormed(last_row')
                 /\ last_row'.date <= now'
                 /\ ~Matches(existing_df, last_row')
                 /\ last_row'.value = THRESHOLD)
                    => /\ calls'.provider > 0
                       /\ (result' \in Closes =>
                              Len(new_data') = Len(new_data) + 1))
       /\ \A j \in 1..Len(csv_file'.rows) :
            (\A i \in 1..Len(csv_file.rows) :
                 csv_file.rows[i].rid # csv_file'.rows[j].rid)
                => csv_file'.rows[j].value >= THRESHOLD]_vars

\* C5 witness: a scrape run has written a record of value exactly 500000.
C5_Witness ==
    /\ pc = "idle"
    /\ ret = "True"
    /\ \E i \in 1..Len(csv_file.rows) :
         csv_file.rows[i].rid >= 3 /\ csv_file.rows[i].value = THRESHOLD

\* C6: a row dated strictly later than the clock at which it is examined is
\* skipped with no provider call and never collected; a well-formed row that
\* is not later, meets the threshold and matches no stored record goes to
\* the resolver.
C6_FutureGuard ==
    [][RowStep =>
         /\ ((/\ last_row'.cells
              /\ last_row'.date # Unparsable
              /\ last_row'.date > now')
                 => /\ new_data' = new_data
                    /\ calls'.provider = 0
                    /\ query' = NoQuery)
         /\ (new_data' # new_data =>
                new_data'[Len(new_data')].date <= now')
         /\ ((/\ WellFormed(last_row')
              /\ last_row'.date <= now'
              /\ last_row'.value >= THRESHOLD
              /\ ~Matches(existing_df, last_row'))
                 => calls'.provider > 0)]_vars

\* C6 witness: a future-dated row that is otherwise eligible was skipped.
C6_Witness ==
    /\ pc = "scrape_row_done"
    /\ WellFormed(last_row)
    /\ last_row.date > now
    /\ last_row.value >= THRESHOLD
    /\ ~Matches(existing_df, last_row)
    /\ calls.provider = 0

\* C7: whatever a resolver returns is the close of a bar, of the series it
\* read, whose timestamp is not later than the target.
C7_NeverLaterBar ==
    (query.fn # "none" /\ result # None) =>
        \E i \in 1..Len(Consulted(query)) :
            /\ Consulted(query)[i].key <= query.target
            /\ Consulted(query)[i].close = result

\* C8: when the 1-minute answer has no usable data (no series, or a series
\* none of whose bars is at or before the target) and the 5-minute answer
\* has a bar at or before the target, get_price_at_filing returns a price.
C8_FallsBackToCoarser ==
    (/\ query.fn = "get_price_at_filing"
     /\ query.first.kind \in {"noseries", "series"}
     /\ ~HasQualifyingBar(query.first, query.target)
     /\ HasQualifyingBar(query.second, query.target)
     /\ Sound(query.second))
        => result # None

\* C9: get_price_at_filing never raises and never makes a price up: what it
\* returns is None or a close of the series it read, it is None when the
\* request fails, the body is not JSON, there is no series, or the series
\* holds no bar that parses, is at or before the target and has a close; and
\* on None the loop collects nothing and goes on with the page.
C9_NotFoundNeverRaises ==
    [][/\ (RowStep /\ query'.fn = "get_price_at_filing") =>
            /\ result' # Raise
            /\ (result' # None =>
                   \E i \in 1..Len(Consulted(query')) :
                       Consulted(query')[i].close = result')
            /\ (query'.first.kind \in {"exc", "badjson"} => result' = None)
            /\ ((/\ query'.first.kind = "noseries"
                 /\ query'.second.kind \in {"exc", "badjson", "noseries"})
                    => result' = None)
            /\ ((\A i \in 1..Len(Consulted(query')) :
                    \/ Consulted(query')[i].key % Minute # 0
                    \/ Consulted(query')[i].key > query'.target
                    \/ Consulted(query')[i].close = NoClose)
                    => result' = None)
            /\ (result' = None => new_data' = new_data /\ ret' = ret)
       /\ (pc = "scrape_row_done" => pc' = "scrape_rows")]_vars

\* C9 witness: the provider request failed and the resolver returned None.
C9_Witness ==
    /\ pc = "scrape_row_done"
    /\ query.fn = "get_price_at_filing"
    /\ query.first.kind = "exc"
    /\ result = None

\* C10: a row that passes the date and value filters and matches no stored
\* record is collected also when the resolver returns None, with
\* price_bought null.
C10_UnresolvedRowKept ==
    [][(/\ RowStep
        /\ WellFormed(last_row')
        /\ last_row'.date <= now'
        /\ last_row'.value >= THRESHOLD
        /\ ~Matches(existing_df, last_row')
        /\ result' = None)
           => /\ Len(new_data') = Len(new_data) + 1
              /\ new_data'[Len(new_data')].pb = None]_vars

\* a step in which a scrape run writes the store
ScrapeWrites == pc = "scrape_rows" /\ pc' = "idle" /\ ret' = "True"

\* how many of transaction_price and price_bought a record has
Enrichment(r) ==
    (IF r.tp # None THEN 1 ELSE 0) + (IF r.pb # None THEN 1 ELSE 0)

\* C11: when the merge of a scrape run meets several records of one
\* uniqueness key among the stored and the collected records, the record it
\* keeps is the one with the most non-null enrichment fields and, among
\* equals, the one added last.
C11_MergeKeepsRichest ==
    [][(ScrapeWrites /\ existing_df # <<>>) =>
         LET all == existing_df \o new_data
             Best(i) ==
                 \A k \in 1..Len(all) :
                     (k # i /\ SameKey(all[k], all[i])) =>
                         \/ Enrichment(all[i]) > Enrichment(all[k])
                         \/ (Enrichment(all[i]) = Enrichment(all[k]) /\ i > k)
         IN  \A i \in 1..Len(all) :
                 (\E j \in 1..Len(csv_file'.rows) :
                      csv_file'.rows[j].rid = all[i].rid) <=> Best(i)]_vars

\* C12: a well-formed, past-dated row above the threshold that has the
\* ticker and filing date of a stored record but the insider of none with
\* that ticker and date is not suppressed: it goes to the resolver and is
\* collected when a price comes back.
C12_DistinctInsiderKept ==
    [][(/\ RowStep
        /\ WellFormed(last_row')
        /\ last_row'.date <= now'
        /\ last_row'.value >= THRESHOLD
        /\ Matches(existing_df, last_row')
        /\ \A i \in 1..Len(existing_df) : ~SameKey(existing_df[i], last_row'))
           => /\ calls'.provider > 0
              /\ (result' \in Closes =>
                     /\ Len(new_data') = Len(new_data) + 1
                     /\ new_data'[Len(new_data')].insider = last_row'.insider)]_vars

\* C13: whenever a scrape run writes the store, no two records of the file
\* share filing date, ticker and insider name.
C13_NoDuplicateKeys ==
    [][ScrapeWrites =>
         \A i, j \in 1..Len(csv_file'.rows) :
             i # j => ~SameKey(csv_file'.rows[i], csv_file'.rows[j])]_vars

\* C14: whenever a scrape run writes the store, the records of the file are
\* in descending order of filing date.
C14_SortedDescending ==
    [][ScrapeWrites =>
         \A i \in 1..(Len(csv_file'.rows) - 1) :
             csv_file'.rows[i].date >= csv_file'.rows[i + 1].date]_vars

\* the same records, each as often, in whatever order
SameRecords(x, y) ==
    /\ Len(x) = Len(y)
    /\ \A r \in MergeRecords :
         Cardinality({i \in 1..Len(x) : x[i] = r}) =
             Cardinality({i \in 1..Len(y) : y[i] = r})

\* C15: merging nothing into a store leaves the store as it is, and merging
\* A and then B into S gives the records that merging into S the merge of A
\* and B gives, whatever order the sorts choose.
C15_MergeAlgebra ==
    /\ (query.fn = "empty" => result = query.S)
    /\ (query.fn = "left" =>
           \A w \in RightResults(query.S, query.A, query.B) :
               SameRecords(result, w))
    /\ (query.fn = "right" =>
           \A y \in LeftResults(query.S, query.A, query.B) :
               SameRecords(result, y))

\* C15 witness: A and then B were merged into a non-empty store, with a
\* record of B sharing its key with a different record of A.
C15_Witness ==
    /\ query.fn = "left"
    /\ query.S # <<>>
    /\ \E i \in 1..Len(query.A), j \in 1..Len(query.B) :
         SameKey(query.A[i], query.B[j]) /\ query.A[i] # query.B[j]

\* C16: whenever the sweep fails, before the backup is made included, its
\* handler runs to its end, restoring the backup this run made when there is
\* one, and the error that made the sweep fail is the one raised to the
\* caller.
C16_HandlerReraisesCause ==
    [][(pc = "sweep_except" /\ pc' = "idle") =>
         /\ ret' = "raised"
         /\ (backup_bound /\ backup_file.exists => csv_file' = backup_file)]_vars

\* C17: when the series the pipeline resolver or the sweep resolver reads
\* is well formed and has a bar at or before the target, in whatever order
\* its keys come, the resolver returns the close of the latest such bar,
\* however far from the target it is.
C17_LatestQualifyingBar ==
    LET bars == Consulted(query)
        Qualifies(i) == bars[i].key % Minute = 0 /\ bars[i].key <= query.target
    IN  (/\ query.fn \in {"get_price_at_filing",
                          "fetch_price_from_alpha_vantage"}
         /\ Sound([bars |-> bars])
         /\ \E i \in 1..Len(bars) : Qualifies(i))
            => \E i \in 1..Len(bars) :
                  /\ Qualifies(i)
                  /\ \A j \in 1..Len(bars) :
                       Qualifies(j) => bars[j].key <= bars[i].key
                  /\ result = bars[i].close

\* a step that runs the body of the sweep loop on a record
SweepStep == pc = "sweep_rows" /\ index' = index + 1

\* C18: in a scrape run and in a sweep, the rate-limit delay lies between
\* any two consecutive requests to the price provider: a step that sends a
\* request starts with the delay passed since the run's last request, also
\* when that one brought no price, and a step that sends two has the delay
\* between them.
C18_DelayBetweenProviderCalls ==
    [][(RowStep \/ SweepStep) =>
         /\ (calls'.provider > 0 => rested)
         /\ (calls'.provider > 1 => calls'.delays >= calls'.provider - 1)]_vars

\* C19: a pass of the sweep loop over a record changes no other record; with
\* both enrichment fields set it sends no request and leaves the record and
\* the file as they are; with only transaction_price null it asks the
\* filing page only and changes nothing but transaction_price; with only
\* price_bought null it asks the price provider only and changes nothing
\* but price_bought.
C19_SweepActsOnNullOnly ==
    [][SweepStep =>
         LET old == df[index]
             new == df'[index]
         IN  /\ Len(df') = Len(df)
             /\ \A i \in 1..Len(df) : i # index => df'[i] = df[i]
             /\ ((old.tp # None /\ old.pb # None) =>
                    /\ calls'.page = 0
                    /\ calls'.provider = 0
                    /\ new = old
                    /\ csv_file' = csv_file)
             /\ ((old.tp = None /\ old.pb # None) =>
                    /\ calls'.page = 1
                    /\ calls'.provider = 0
                    /\ new = [old EXCEPT !.tp = new.tp])
             /\ ((old.tp # None /\ old.pb = None) =>
                    /\ calls'.page = 0
                    /\ calls'.provider = 1
                    /\ new = [old EXCEPT !.pb = new.pb])]_vars

\* C19 witness: the sweep has passed a record that had a price_bought and no
\* transaction_price, asked the filing page only, and filled the field.
C19_Witness ==
    /\ pc = "sweep_rows"
    /\ index > 1
    /\ calls.page = 1
    /\ calls.provider = 0
    /\ df[index - 1].tp # None
    /\ df[index - 1].pb # None

\* C20: a filing page without the expected table is reported: the scrape
\* run logs an error and ends with the store as it was, and the sweep's
\* transaction-price lookup logs an error too.
C20_MissingTableFailsLoudly ==
    [][/\ (pc = "idle" /\ calls'.page = 1 /\ calls'.notable) =>
            /\ calls'.page_errors >= 1
            /\ pc' = "idle"
            /\ ret' = "False"
            /\ csv_file' = csv_file
       /\ (SweepStep /\ calls'.notable) => calls'.page_errors >= 1]_vars

\* C21: in a scrape run, a row that has the ticker and the filing date of a
\* record the store file holds costs no request to the price provider and
\* is not collected; and a run that collects nothing does not write the
\* file and returns False.
C21_RerunIdempotent ==
    [][/\ (/\ RowStep
            /\ last_row'.cells
            /\ \E i \in 1..Len(csv_file.rows) :
                 /\ csv_file.rows[i].ticker = last_row'.ticker
                 /\ csv_file.rows[i].date = last_row'.date)
              => (calls'.provider = 0 /\ new_data' = new_data)
       /\ (pc = "scrape_rows" /\ pc' = "idle" /\ new_data = <<>>)
              => (csv_file' = csv_file /\ ret' = "False")]_vars

====
